---- MODULE Spec2Model ----
(***************************************************************************)
(* Billing batch generation and payment reconciliation of ipl-be-svc.      *)
(*                                                                         *)
(* Spec      : the database tables (billings and its three link tables),   *)
(*             the bulk generation calls, ConfirmPayment and the two       *)
(*             confirmation handlers.                                      *)
(* SpecCodec : the correlation text written by the payment-link issuer and *)
(*             its decoding by the webhook handler.                        *)
(* SpecFee   : the admin-fee computation of mayarService.CreatePaymentLink.*)
(*                                                                         *)
(* Texts are sequences of one-character strings, so that formatting,       *)
(* splitting and scanning are computed character by character.             *)
(***************************************************************************)
EXTENDS Integers, Sequences, FiniteSets, TLC

VARIABLES
    statuses,       \* master_general_statuses rows
    settings,       \* setting_billings rows
    billings,       \* billings rows; a row's id is its position
    profileLinks,   \* billings_profile_id_lnk rows
    statusLinks,    \* billing status link rows
    kategoriLinks,  \* billing kategori transaksi link rows
    gen,            \* per caller: the bulk generation call waiting for its transaction
    ret,            \* the last bulk generation call returned and what it returned
    wh,             \* the last confirmation request handled and its response
    conf,           \* the ConfirmPayment call that request made, if any
    cdc,            \* SpecCodec: ids, document ids, correlation text, decoded list
    fee,            \* SpecFee: payment config, billings, computed fee
    link,           \* SpecLink: billings table, payment-link request and its result
    sched,          \* SpecScheduler: the scheduler's fires and its audit log
    hook            \* SpecWebhook: the webhook in progress, step by step

vars == <<statuses, settings, billings, profileLinks, statusLinks, kategoriLinks,
          gen, ret, wh, conf, cdc, fee, link, sched, hook>>

dbVars == <<billings, profileLinks, statusLinks, kategoriLinks>>

auxVars == <<link, sched, hook>>

-----------------------------------------------------------------------------
(* Bounds *)

\* Largest number of billings rows the tables may hold.
MaxRows == 4

-----------------------------------------------------------------------------
(* Text helpers: fmt.Sprintf("%d"), strings.Join, strings.Split, fmt.Sscanf *)

NoErr == "nil"

Digits == <<"0", "1", "2", "3", "4", "5", "6", "7", "8", "9">>

IsDigit(c) == \E i \in 1..10 : Digits[i] = c

DigitVal(c) == (CHOOSE i \in 1..10 : Digits[i] = c) - 1

RECURSIVE Itoa(_)
\* fmt.Sprintf("%d", n) for an unsigned n
Itoa(n) == IF n < 10 THEN <<Digits[n + 1]>>
           ELSE Itoa(n \div 10) \o <<Digits[(n % 10) + 1]>>

RECURSIVE Join(_, _)
\* strings.Join(parts, sep)
Join(parts, sep) ==
    IF parts = <<>> THEN <<>>
    ELSE IF Len(parts) = 1 THEN parts[1]
    ELSE parts[1] \o sep \o Join(Tail(parts), sep)

RECURSIVE Split(_, _)
\* strings.Split(s, sep) for a one-character separator: always at least one part
Split(s, sep) ==
    IF \A i \in 1..Len(s) : s[i] # sep THEN <<s>>
    ELSE LET i == CHOOSE j \in 1..Len(s) :
                      s[j] = sep /\ \A k \in 1..(j - 1) : s[k] # sep
         IN  <<SubSeq(s, 1, i - 1)>> \o Split(SubSeq(s, i + 1, Len(s)), sep)

RECURSIVE SkipSpace(_)
SkipSpace(s) == IF s # <<>> /\ s[1] = " " THEN SkipSpace(Tail(s)) ELSE s

RECURSIVE DigitPrefix(_)
\* the longest prefix of s made of decimal digits
DigitPrefix(s) == IF s # <<>> /\ IsDigit(s[1]) THEN <<s[1]>> \o DigitPrefix(Tail(s))
                  ELSE <<>>

RECURSIVE Atoi(_)
Atoi(ds) == IF ds = <<>> THEN 0
            ELSE 10 * Atoi(SubSeq(ds, 1, Len(ds) - 1)) + DigitVal(ds[Len(ds)])

\* fmt.Sscanf(idStr, "%d", &id) with id a uint: leading spaces are skipped, the
\* digits that follow are read, and whatever comes after them is left unread.
\* No digit (or end of input) is an error.
SscanfUint(idStr) ==
    LET ds == DigitPrefix(SkipSpace(idStr))
    IN  IF ds = <<>> THEN [err |-> "expected integer", val |-> 0]
        ELSE [err |-> NoErr, val |-> Atoi(ds)]

-----------------------------------------------------------------------------
(* Master data *)

Unpaid == <<"B", "e", "l", "u", "m", " ", "D", "i", "b", "a", "y", "a", "r">>

Status(id, name, pub) == [id |-> id, name |-> name, published |-> pub]

Setting(id, jenis, active, pub, nominal) ==
    [id |-> id, jenis |-> jenis, active |-> active, published |-> pub, nominal |-> nominal]

Paid == <<"L", "u", "n", "a", "s">>

\* The master data considered: master_general_statuses and setting_billings rows,
\* each in id order.
\*   1: "Belum Dibayar" is published; two active monthly settings, a published and
\*      an unpublished custom setting
\*   2: "Belum Dibayar" is not published but another status is; no active published
\*      monthly setting
\*   3: no status is published
Worlds ==
    { [statuses |-> <<Status(1, Unpaid, TRUE), Status(6, Paid, TRUE)>>,
       settings |-> <<Setting(1, "bulanan", TRUE, TRUE, 150000),
                      Setting(2, "bulanan", TRUE, TRUE, 50000),
                      Setting(3, "custom", TRUE, TRUE, 75000),
                      Setting(4, "custom", TRUE, FALSE, 10000)>>],
      [statuses |-> <<Status(1, Unpaid, FALSE), Status(2, <<"W", "a", "i", "t">>, TRUE),
                      Status(6, Paid, TRUE)>>,
       settings |-> <<Setting(1, "bulanan", FALSE, TRUE, 150000),
                      Setting(2, "bulanan", TRUE, FALSE, 50000),
                      Setting(3, "custom", TRUE, TRUE, 75000)>>],
      [statuses |-> <<Status(1, Unpaid, FALSE)>>,
       settings |-> <<Setting(1, "bulanan", TRUE, TRUE, 150000),
                      Setting(3, "custom", TRUE, TRUE, 75000)>>] }

\* up_users with their role type and whether a profile is linked; rows in id order.
Users == << [id |-> 1, penghuni |-> FALSE, profile |-> TRUE],
            [id |-> 2, penghuni |-> TRUE, profile |-> TRUE],
            [id |-> 3, penghuni |-> FALSE, profile |-> FALSE] >>

\* user_ids of a request: none (all residents), known ids, unknown / profile-less ids
UserIDLists == { <<>>, <<2, 1>>, <<3, 9>> }

Periods == { [bulan |-> 1, tahun |-> 2025] }

SettingIDs == {3, 4, 7}

Callers == {"c1"}

-----------------------------------------------------------------------------
(* Sequence helpers *)

Range(s) == { s[i] : i \in 1..Len(s) }

-----------------------------------------------------------------------------
(* Queries of the bulk generation calls *)

\* DefaultStatus without the fallback to the first published row
DefaultStatus_NamedOnly(sts) ==
    LET named == SelectSeq(sts, LAMBDA s : s.name = Unpaid /\ s.published)
    IN  IF named # <<>> THEN [err |-> NoErr, id |-> named[1].id]
        ELSE [err |-> "failed to get default status", id |-> 0]

\* The default status: the first published row named "Belum Dibayar", else the
\* first published row, else an error.
DefaultStatus(sts) ==
    LET named == SelectSeq(sts, LAMBDA s : s.name = Unpaid /\ s.published)
        any   == SelectSeq(sts, LAMBDA s : s.published)
    IN  IF named # <<>> THEN [err |-> NoErr, id |-> named[1].id]
        ELSE IF any # <<>> THEN [err |-> NoErr, id |-> any[1].id]
        ELSE [err |-> "failed to get default status", id |-> 0]

GetActiveMonthlySettingBillings(setts) ==
    SelectSeq(setts, LAMBDA s : s.jenis = "bulanan" /\ s.active /\ s.published)

GetBillingSettingsByID(setts, id) ==
    LET found == SelectSeq(setts, LAMBDA s : s.id = id)
    IN  IF found = <<>> THEN [err |-> "failed to get setting billings", rows |-> <<>>]
        ELSE [err |-> NoErr, rows |-> <<found[1]>>]

\* getUserWithProfile succeeds for a user row that has a profile linked
getUserWithProfile(userID) ==
    \E i \in 1..Len(Users) : Users[i].id = userID /\ Users[i].profile

\* The cohort query without its NOT IN clause: every user of role type "penghuni"
GetUsersWithPenghuniRoleWithoutBilling_All(period, bs, pls) ==
    LET rows == SelectSeq(Users, LAMBDA u : u.penghuni)
    IN  [i \in 1..Len(rows) |-> rows[i].id]

\* Users of role type "penghuni" whose id is on no profile link of a billing of
\* the period, in id order.
GetUsersWithPenghuniRoleWithoutBilling(period, bs, pls) ==
    LET billed == { pls[i].user : i \in { j \in 1..Len(pls) :
                        /\ pls[j].billing \in 1..Len(bs)
                        /\ bs[pls[j].billing].bulan = period.bulan
                        /\ bs[pls[j].billing].tahun = period.tahun } }
        rows   == SelectSeq(Users, LAMBDA u : u.penghuni /\ u.id \notin billed)
    IN  [i \in 1..Len(rows) |-> rows[i].id]

\* The cohort of a call: the given ids that pass getUserWithProfile, or, when no
\* id is given, the residents not yet billed for the period.
ResolveUsers(userIDs, period, bs, pls) ==
    IF Len(userIDs) > 0 THEN SelectSeq(userIDs, getUserWithProfile)
    ELSE GetUsersWithPenghuniRoleWithoutBilling(period, bs, pls)

-----------------------------------------------------------------------------
(* The records built by a bulk generation call *)

Resp(tu, tb, sc, fc, errs) ==
    [isNil |-> FALSE, TotalUsers |-> tu, TotalBillings |-> tb, SuccessCount |-> sc,
     FailedCount |-> fc, Errors |-> errs]

NilResp == [isNil |-> TRUE, TotalUsers |-> 0, TotalBillings |-> 0, SuccessCount |-> 0,
            FailedCount |-> 0, Errors |-> <<>>]

\* A caller's call: the four parallel record lists and the response prepared
\* (pc = "tx"), or the response and error of a call that returns (pc = "done").
Idle == [pc |-> "idle", billings |-> <<>>, links |-> <<>>, statusLinks |-> <<>>,
         kategoriLinks |-> <<>>, resp |-> NilResp, err |-> NoErr]

\* What a bulk generation call returned, with the fault injected into its
\* transaction and the number of billings rows the call added to the table.
NoReturn == [caller |-> "none", resp |-> NilResp, err |-> NoErr, fault |-> "none",
             committed |-> 0]

\* One billing per (user, published setting), users outermost; the three link
\* rows are built alongside, their billing id still unset (0).
BuildRecords(prefix, users, setts, period, statusID) ==
    LET pubs == SelectSeq(setts, LAMBDA s : s.published)
        n    == Len(users) * Len(pubs)
        usr(i) == users[((i - 1) \div Len(pubs)) + 1]
        set(i) == pubs[((i - 1) % Len(pubs)) + 1]
    IN  [billings |-> [i \in 1..n |->
                          [doc |-> prefix, nama |-> set(i).id, bulan |-> period.bulan,
                           tahun |-> period.tahun, nominal |-> set(i).nominal]],
         links |-> [i \in 1..n |-> [billing |-> 0, user |-> usr(i)]],
         statusLinks |-> [i \in 1..n |-> [billing |-> 0, status |-> statusID]],
         kategoriLinks |-> [i \in 1..n |-> [billing |-> 0, kategori |-> 1]]]

-----------------------------------------------------------------------------
(* Bulk generation: the reads and the in-memory records *)

Returned(resp, err) == [Idle EXCEPT !.pc = "done", !.resp = resp, !.err = err]

\* Prepare without the early return for an empty cohort
Prepare_NoEmptyReturn(prefix, userIDs, period, settingErr, setts, queryFails, sts, bs, pls) ==
    LET ds    == DefaultStatus(sts)
        users == ResolveUsers(userIDs, period, bs, pls)
        recs  == BuildRecords(prefix, users, setts, period, ds.id)
    IN  IF ds.err # NoErr THEN Returned(NilResp, ds.err)
        ELSE IF settingErr # NoErr THEN Returned(NilResp, settingErr)
        ELSE IF Len(userIDs) = 0 /\ queryFails
            THEN Returned(NilResp, "failed to get penghuni users")
        ELSE [Idle EXCEPT !.pc = "tx",
                          !.billings = recs.billings, !.links = recs.links,
                          !.statusLinks = recs.statusLinks,
                          !.kategoriLinks = recs.kategoriLinks,
                          !.resp = Resp(Len(users), Len(recs.billings), 0, 0, <<>>)]

\* The call up to its transaction: either it has returned (pc = "done") or it
\* holds the records to persist (pc = "tx").
Prepare(prefix, userIDs, period, settingErr, setts, queryFails, sts, bs, pls) ==
    LET ds    == DefaultStatus(sts)
        users == ResolveUsers(userIDs, period, bs, pls)
        recs  == BuildRecords(prefix, users, setts, period, ds.id)
    IN  IF ds.err # NoErr THEN Returned(NilResp, ds.err)
        ELSE IF settingErr # NoErr THEN Returned(NilResp, settingErr)
        ELSE IF Len(userIDs) = 0 /\ queryFails
            THEN Returned(NilResp, "failed to get penghuni users")
        ELSE IF Len(users) = 0 THEN Returned(Resp(0, 0, 0, 0, <<>>), NoErr)
        ELSE [Idle EXCEPT !.pc = "tx",
                          !.billings = recs.billings, !.links = recs.links,
                          !.statusLinks = recs.statusLinks,
                          !.kategoriLinks = recs.kategoriLinks,
                          !.resp = Resp(Len(users), Len(recs.billings), 0, 0, <<>>)]

PrepareMonthly(userIDs, period, queryFails, sts, allSetts, bs, pls) ==
    LET setts == GetActiveMonthlySettingBillings(allSetts)
    IN  Prepare("monthly-", userIDs, period,
                IF Len(setts) = 0 THEN "no active monthly setting billings found"
                ELSE NoErr,
                setts, queryFails, sts, bs, pls)

PrepareCustom(userIDs, billingSettingsId, period, queryFails, sts, allSetts, bs, pls) ==
    LET got == GetBillingSettingsByID(allSetts, billingSettingsId)
    IN  Prepare("custom-", userIDs, period, got.err, got.rows, queryFails,
                sts, bs, pls)

-----------------------------------------------------------------------------
(* The database and its transactions *)

DB == [billings |-> billings, profileLinks |-> profileLinks,
       statusLinks |-> statusLinks, kategoriLinks |-> kategoriLinks]

\* Points at which a bulk transaction may be made to fail.
Faults == {"none", "billings", "profileLinks", "statusLinks", "kategoriLinks", "commit"}

\* db.Transaction(fc): fc's writes are kept only if fc returns nil and the commit
\* succeeds; otherwise the database is as before the call.
GormTransaction(before, body, commitFails) ==
    IF body.err # NoErr THEN [db |-> before, err |-> body.err]
    ELSE IF commitFails THEN [db |-> before, err |-> "commit failed"]
    ELSE [db |-> body.db, err |-> NoErr]

\* CreateBulkBody without the copy of the generated ids into the link rows
CreateBulkBody_NoBackfill(d, g, fault) ==
    LET d1 == [d  EXCEPT !.billings = @ \o g.billings]
        d2 == [d1 EXCEPT !.profileLinks = @ \o g.links]
        d3 == [d2 EXCEPT !.statusLinks = @ \o g.statusLinks]
        d4 == [d3 EXCEPT !.kategoriLinks = @ \o g.kategoriLinks]
    IN  IF fault = "billings"
            THEN [db |-> d, err |-> "failed to create billings", success |-> 0]
        ELSE IF fault = "profileLinks"
            THEN [db |-> d1, err |-> "failed to create billing profile links", success |-> 0]
        ELSE IF fault = "statusLinks"
            THEN [db |-> d2, err |-> "failed to create billing status bill links",
                  success |-> 0]
        ELSE IF fault = "kategoriLinks"
            THEN [db |-> d3, err |-> "failed to create billing kategori transaksi links",
                  success |-> 0]
        ELSE [db |-> d4, err |-> NoErr, success |-> Len(g.billings)]

\* The function run inside the bulk transaction: insert the billings, copy their
\* generated ids into the link rows, insert the three link sets.  `success` is
\* the value the function leaves in response.SuccessCount.
CreateBulkBody(d, g, fault) ==
    LET n     == Len(g.billings)
        ID(i) == Len(d.billings) + i
        setID(rows) == [i \in 1..Len(rows) |->
                           IF i <= n THEN [rows[i] EXCEPT !.billing = ID(i)] ELSE rows[i]]
        d1 == [d  EXCEPT !.billings = @ \o g.billings]
        d2 == [d1 EXCEPT !.profileLinks = @ \o setID(g.links)]
        d3 == [d2 EXCEPT !.statusLinks = @ \o setID(g.statusLinks)]
        d4 == [d3 EXCEPT !.kategoriLinks = @ \o setID(g.kategoriLinks)]
    IN  IF fault = "billings"
            THEN [db |-> d, err |-> "failed to create billings", success |-> 0]
        ELSE IF fault = "profileLinks"
            THEN [db |-> d1, err |-> "failed to create billing profile links", success |-> 0]
        ELSE IF fault = "statusLinks"
            THEN [db |-> d2, err |-> "failed to create billing status bill links",
                  success |-> 0]
        ELSE IF fault = "kategoriLinks"
            THEN [db |-> d3, err |-> "failed to create billing kategori transaksi links",
                  success |-> 0]
        ELSE [db |-> d4, err |-> NoErr, success |-> n]

\* TxCreateBulk with the inserts issued on the connection instead of the
\* transaction handle: what was inserted before a failure stays.
TxCreateBulk_OutsideTx(d, g, fault) ==
    LET body == CreateBulkBody(d, g, fault)
        err  == IF body.err # NoErr THEN body.err
                ELSE IF fault = "commit" THEN "commit failed" ELSE NoErr
    IN  [db   |-> body.db,
         resp |-> [g.resp EXCEPT
                     !.SuccessCount = body.success,
                     !.FailedCount = IF err # NoErr THEN Len(g.billings) ELSE 0,
                     !.Errors = IF err # NoErr THEN <<err>> ELSE <<>>]]

\* TxCreateBulk over a table with a unique index on (resident, definition,
\* period): the insert of a billing that is already there fails the transaction.
TxCreateBulk_UniqueIndex(d, g, fault) ==
    LET taken(i) == \E j \in 1..Len(d.billings) :
                        /\ d.billings[j] = g.billings[i]
                        /\ \E a \in 1..Len(d.profileLinks) :
                               /\ d.profileLinks[a].billing = j
                               /\ d.profileLinks[a].user = g.links[i].user
        clash == \E i \in 1..Len(g.billings) : taken(i)
        body  == CreateBulkBody(d, g, IF clash THEN "billings" ELSE fault)
        tx    == GormTransaction(d, body, fault = "commit")
    IN  [db   |-> tx.db,
         resp |-> [g.resp EXCEPT
                     !.SuccessCount = body.success,
                     !.FailedCount = IF tx.err # NoErr THEN Len(g.billings) ELSE 0,
                     !.Errors = IF tx.err # NoErr THEN <<tx.err>> ELSE <<>>]]

\* The transaction of a bulk generation call and the response it returns.
TxCreateBulk(d, g, fault) ==
    LET body == CreateBulkBody(d, g, fault)
        tx   == GormTransaction(d, body, fault = "commit")
    IN  [db   |-> tx.db,
         resp |-> [g.resp EXCEPT
                     !.SuccessCount = body.success,
                     !.FailedCount = IF tx.err # NoErr THEN Len(g.billings) ELSE 0,
                     !.Errors = IF tx.err # NoErr THEN <<tx.err>> ELSE <<>>]]

-----------------------------------------------------------------------------
(* ConfirmPayment *)

\* master_general_status_id written by ConfirmPayment
PaidStatusID == 6

\* UpdateStatusLinks that flips the link: a confirmed billing goes back to the
\* status it was created with
UpdateStatusLinks_Toggle(sl, id) ==
    [i \in 1..Len(sl) |-> IF sl[i].billing = id
                          THEN [sl[i] EXCEPT !.status = IF @ = PaidStatusID THEN 1
                                                        ELSE PaidStatusID]
                          ELSE sl[i]]

\* UpdateStatusLinks without its WHERE clause: every link is set to Paid
UpdateStatusLinks_AllRows(sl, id) ==
    [i \in 1..Len(sl) |-> [sl[i] EXCEPT !.status = PaidStatusID]]

\* UPDATE ... SET master_general_status_id = 6 WHERE t_billing_id = id
UpdateStatusLinks(sl, id) ==
    [i \in 1..Len(sl) |-> IF sl[i].billing = id
                          THEN [sl[i] EXCEPT !.status = PaidStatusID] ELSE sl[i]]

RECURSIVE ConfirmLoop(_, _, _, _)
\* The loop over listIds inside the transaction; the failAt-th update fails.
ConfirmLoop(sl, listIds, i, failAt) ==
    IF i > Len(listIds) THEN [sl |-> sl, err |-> NoErr]
    ELSE IF failAt = i THEN [sl |-> sl, err |-> "failed to update billing status links"]
    ELSE ConfirmLoop(UpdateStatusLinks(sl, listIds[i]), listIds, i + 1, failAt)

\* ConfirmPayment with each update committed on its own
ConfirmPayment_AutoCommit(d, listIds, failAt) ==
    LET loop == ConfirmLoop(d.statusLinks, listIds, 1, failAt)
    IN  [db  |-> [d EXCEPT !.statusLinks = loop.sl],
         err |-> IF loop.err # NoErr THEN loop.err
                 ELSE IF failAt = Len(listIds) + 1 THEN "commit failed" ELSE NoErr]

\* ConfirmPayment refusing a billing that is already paid
ConfirmPayment_RejectPaid(d, listIds, failAt) ==
    LET loop == ConfirmLoop(d.statusLinks, listIds, 1, failAt)
        body == [db |-> [d EXCEPT !.statusLinks = loop.sl], err |-> loop.err]
    IN  IF \E i \in 1..Len(d.statusLinks) :
               /\ d.statusLinks[i].billing \in Range(listIds)
               /\ d.statusLinks[i].status = PaidStatusID
        THEN [db |-> d, err |-> "billing already paid"]
        ELSE GormTransaction(d, body, failAt = Len(listIds) + 1)

\* ConfirmPayment failing when an update matches no status link
ConfirmPayment_RequireMatch(d, listIds, failAt) ==
    LET loop == ConfirmLoop(d.statusLinks, listIds, 1, failAt)
        body == [db |-> [d EXCEPT !.statusLinks = loop.sl], err |-> loop.err]
    IN  IF \E k \in 1..Len(listIds) :
               \A i \in 1..Len(d.statusLinks) : d.statusLinks[i].billing # listIds[k]
        THEN [db |-> d, err |-> "billing not found"]
        ELSE GormTransaction(d, body, failAt = Len(listIds) + 1)

\* ConfirmPayment(listIds): failAt = 0 is no failure, failAt in 1..Len(listIds)
\* fails that update, failAt = Len(listIds) + 1 fails the commit.
ConfirmPayment(d, listIds, failAt) ==
    LET loop == ConfirmLoop(d.statusLinks, listIds, 1, failAt)
        body == [db |-> [d EXCEPT !.statusLinks = loop.sl], err |-> loop.err]
    IN  GormTransaction(d, body, failAt = Len(listIds) + 1)

-----------------------------------------------------------------------------
(* The confirmation handlers *)

RECURSIVE ScanIds(_, _)
\* The loop over listId: each token is scanned; the first failure ends the handler.
ScanIds(listId, acc) ==
    IF listId = <<>> THEN [err |-> NoErr, ids |-> acc]
    ELSE LET r == SscanfUint(listId[1])
         IN  IF r.err # NoErr THEN [err |-> r.err, ids |-> acc]
             ELSE ScanIds(Tail(listId), Append(acc, r.val))

\* The id list the webhook handler reads from a text: the third "-"-separated
\* part, split on ",".  Indexing part [2] of fewer than three parts panics.
DecodeInvoice(text) ==
    LET parts == Split(text, "-")
    IN  IF Len(parts) < 3 THEN [panic |-> TRUE, err |-> NoErr, ids |-> <<>>]
        ELSE LET r == ScanIds(Split(parts[3], ","), <<>>)
             IN  [panic |-> FALSE, err |-> r.err, ids |-> r.ids]

NoConf == [called |-> FALSE, ids |-> <<>>, err |-> NoErr, failAt |-> 0,
           again |-> FALSE]

NoRequest == [handler |-> "none", bound |-> FALSE, invoice |-> <<>>, outcome |-> "none"]

\* The record of the ConfirmPayment call of a request.  `again` tells that the
\* call just before it (no other call returned in between) confirmed the same id
\* list successfully.
ConfRecord(prev, listIds, failAt, r) ==
    [called |-> TRUE, ids |-> listIds, err |-> r.err, failAt |-> failAt,
     again |-> prev.called /\ prev.err = NoErr /\ prev.ids = listIds]

\* order.invoice_number values of the webhooks considered
INV == <<"I", "N", "V", "-", "1", "-">>

Invoices ==
    { INV \o <<"1", ",", "2">>,
      INV \o <<"2", "a", "b">>,
      INV \o <<"1", ",", "a", "b">>,
      INV,
      <<"I", "N", "V", "-", "1">>,
      <<>> }

\* billing_id values of the single confirmations considered (0: absent)
BillingIDs == {0, 3}

-----------------------------------------------------------------------------
(* Spec: actions *)

NoCodec == [pc |-> "off", ids |-> <<>>, docs |-> <<>>, text |-> <<>>,
            decoded |-> [panic |-> FALSE, err |-> NoErr, ids |-> <<>>]]

Nil == [set |-> FALSE, v |-> 0]

Some(v) == [set |-> TRUE, v |-> v]

NoFee == [pc |-> "off", config |-> [PaymentFee |-> Nil, IsFixedFee |-> Nil,
                                    MinMonthDiscount |-> Nil, MaxFee |-> Nil],
          billings |-> <<>>, adminFee |-> 0]

NoLink == [pc |-> "off"]

NoSched == [pc |-> "off"]

NoHook == [pc |-> "off"]

Init ==
    /\ \E w \in Worlds : statuses = w.statuses /\ settings = w.settings
    /\ billings = <<>>
    /\ profileLinks = <<>>
    /\ statusLinks = <<>>
    /\ kategoriLinks = <<>>
    /\ gen = [p \in Callers |-> Idle]
    /\ ret = NoReturn
    /\ wh = NoRequest
    /\ conf = NoConf
    /\ cdc = NoCodec
    /\ fee = NoFee
    /\ link = NoLink
    /\ sched = NoSched
    /\ hook = NoHook

\* A call that reaches its transaction waits in gen; one that returns before
\* it leaves its result in ret.
Called(p, g) ==
    IF g.pc = "tx"
    THEN /\ gen' = [gen EXCEPT ![p] = g]
         /\ UNCHANGED <<ret, wh, conf>>
    ELSE /\ gen' = [gen EXCEPT ![p] = Idle]
         /\ ret' = [NoReturn EXCEPT !.caller = p, !.resp = g.resp, !.err = g.err]
         /\ wh' = NoRequest
         /\ conf' = NoConf

\* CreateBulkMonthlyBillings up to its transaction
CreateBulkMonthlyBillings(p, userIDs, period, queryFails) ==
    /\ gen[p].pc = "idle"
    /\ queryFails => Len(userIDs) = 0
    /\ Called(p, PrepareMonthly(userIDs, period, queryFails, statuses, settings,
                                billings, profileLinks))
    /\ UNCHANGED <<statuses, settings, dbVars, cdc, fee, auxVars>>

\* CreateBulkCustomBillings up to its transaction
CreateBulkCustomBillings(p, userIDs, billingSettingsId, period, queryFails) ==
    /\ gen[p].pc = "idle"
    /\ queryFails => Len(userIDs) = 0
    /\ Called(p, PrepareCustom(userIDs, billingSettingsId, period, queryFails,
                               statuses, settings, billings, profileLinks))
    /\ UNCHANGED <<statuses, settings, dbVars, cdc, fee, auxVars>>

\* The transaction of a bulk generation call, and its return
BulkTransaction(p, fault) ==
    /\ gen[p].pc = "tx"
    /\ fault = "none" => Len(billings) + Len(gen[p].billings) <= MaxRows
    /\ LET r == TxCreateBulk(DB, gen[p], fault)
       IN  /\ billings' = r.db.billings
           /\ profileLinks' = r.db.profileLinks
           /\ statusLinks' = r.db.statusLinks
           /\ kategoriLinks' = r.db.kategoriLinks
           /\ ret' = [caller |-> p, resp |-> r.resp, err |-> NoErr, fault |-> fault,
                      committed |-> Len(r.db.billings) - Len(billings)]
    /\ gen' = [gen EXCEPT ![p] = Idle]
    /\ wh' = NoRequest
    /\ conf' = NoConf
    /\ UNCHANGED <<statuses, settings, cdc, fee, auxVars>>

\* ConfirmPaymentSingle: billing_id is required (a zero value does not bind)
ConfirmPaymentSingle(billingID, failAt) ==
    /\ failAt \in 0..2
    /\ IF billingID = 0
       THEN /\ wh' = [NoRequest EXCEPT !.handler = "single", !.outcome = "400"]
            /\ conf' = NoConf
            /\ UNCHANGED dbVars
       ELSE LET r == ConfirmPayment(DB, <<billingID>>, failAt)
            IN  /\ statusLinks' = r.db.statusLinks
                /\ conf' = ConfRecord(conf, <<billingID>>, failAt, r)
                /\ wh' = [NoRequest EXCEPT !.handler = "single", !.bound = TRUE,
                                           !.outcome = IF r.err # NoErr THEN "500"
                                                       ELSE "200"]
                /\ UNCHANGED <<billings, profileLinks, kategoriLinks>>
    /\ ret' = NoReturn
    /\ UNCHANGED <<statuses, settings, gen, cdc, fee, auxVars>>

\* ConfirmPaymentWebhook: bind the payload, read the ids from order.invoice_number,
\* call ConfirmPayment
ConfirmPaymentWebhook(bound, invoice, failAt) ==
    LET dec == DecodeInvoice(invoice)
        req == [NoRequest EXCEPT !.handler = "webhook", !.bound = TRUE,
                                 !.invoice = invoice]
    IN  /\ failAt \in 0..(Len(dec.ids) + 1)
        /\ IF ~bound
           THEN /\ wh' = [NoRequest EXCEPT !.handler = "webhook", !.outcome = "400"]
                /\ conf' = NoConf
                /\ UNCHANGED dbVars
           ELSE IF dec.panic
           THEN /\ wh' = [req EXCEPT !.outcome = "panic"]
                /\ conf' = NoConf
                /\ UNCHANGED dbVars
           ELSE IF dec.err # NoErr
           THEN /\ wh' = [req EXCEPT !.outcome = "400"]
                /\ conf' = NoConf
                /\ UNCHANGED dbVars
           ELSE LET r == ConfirmPayment(DB, dec.ids, failAt)
                IN  /\ statusLinks' = r.db.statusLinks
                    /\ conf' = ConfRecord(conf, dec.ids, failAt, r)
                    /\ wh' = [req EXCEPT !.outcome = IF r.err # NoErr THEN "500"
                                                     ELSE "200"]
                    /\ UNCHANGED <<billings, profileLinks, kategoriLinks>>
        /\ ret' = NoReturn
        /\ UNCHANGED <<statuses, settings, gen, cdc, fee, auxVars>>

Next ==
    \/ \E p \in Callers, u \in UserIDLists, per \in Periods, qf \in BOOLEAN :
           CreateBulkMonthlyBillings(p, u, per, qf)
    \/ \E p \in Callers, u \in UserIDLists, sid \in SettingIDs, per \in Periods,
          qf \in BOOLEAN :
           CreateBulkCustomBillings(p, u, sid, per, qf)
    \/ \E p \in Callers, f \in Faults : BulkTransaction(p, f)
    \/ \E id \in BillingIDs, f \in 0..2 : ConfirmPaymentSingle(id, f)
    \/ \E b \in BOOLEAN, inv \in Invoices, f \in 0..3 : ConfirmPaymentWebhook(b, inv, f)

Spec == Init /\ [][Next]_vars

-----------------------------------------------------------------------------
(* SpecCodec: the correlation text of a payment link and its decoding *)

\* Longest billing id list encoded.
MaxIds == 2

IdValues == {1, 67, 1372}

RECURSIVE ListsUpTo(_, _)
\* the sequences over S of length 0..n
ListsUpTo(S, n) ==
    IF n = 0 THEN { <<>> }
    ELSE LET shorter == ListsUpTo(S, n - 1)
         IN  shorter \cup { Append(l, x) : l \in shorter, x \in S }

IdLists == ListsUpTo(IdValues, MaxIds) \ { <<>> }

Monthly == <<"m", "o", "n", "t", "h", "l", "y", "-">>

\* document ids of the billings of a link: none, or "monthly-<uuid>" values
DocLists == { <<>>,
              <<Monthly \o <<"a">>>>,
              <<Monthly \o <<"a">>, Monthly \o <<"b">>>>,
              <<Monthly \o <<"6", "7", "-", "4", "2">>>> }

\* billingIDsStr of CreatePaymentLinkMultiple: the ids in decimal, joined by ","
BillingIDsStr(billingIDs) ==
    Join([i \in 1..Len(billingIDs) |-> Itoa(billingIDs[i])], <<",">>)

\* documentIDsStr of CreatePaymentLinkMultiple
DocumentIDsStr(listDocumentIDs) == Join(listDocumentIDs, <<",", " ">>)

\* productDescription of mayarService.CreatePaymentLink:
\* "<ids> (DocumentID: <docs>)", or "<ids> (DocumentID: N/A)" without docs
ProductDescription(billingIDsStr, documentIDs) ==
    LET open == <<" ", "(", "D", "o", "c", "u", "m", "e", "n", "t", "I", "D", ":", " ">>
    IN  IF documentIDs # <<>> THEN billingIDsStr \o open \o documentIDs \o <<")">>
        ELSE billingIDsStr \o open \o <<"N", "/", "A", ")">>

InitCodec ==
    /\ statuses = <<>>
    /\ settings = <<>>
    /\ billings = <<>>
    /\ profileLinks = <<>>
    /\ statusLinks = <<>>
    /\ kategoriLinks = <<>>
    /\ gen = [p \in Callers |-> Idle]
    /\ ret = NoReturn
    /\ wh = NoRequest
    /\ conf = NoConf
    /\ fee = NoFee
    /\ link = NoLink
    /\ sched = NoSched
    /\ hook = NoHook
    /\ \E ids \in IdLists, docs \in DocLists :
           cdc = [NoCodec EXCEPT !.pc = "start", !.ids = ids, !.docs = docs]

\* The issuer writes the correlation text into the invoice description.
Encode ==
    /\ cdc.pc = "start"
    /\ cdc' = [cdc EXCEPT !.pc = "encoded",
                          !.text = ProductDescription(BillingIDsStr(cdc.ids),
                                                      DocumentIDsStr(cdc.docs))]
    /\ UNCHANGED <<statuses, settings, dbVars, gen, ret, wh, conf, fee, auxVars>>

\* The webhook handler reads the id list back from the text.
Decode ==
    /\ cdc.pc = "encoded"
    /\ cdc' = [cdc EXCEPT !.pc = "decoded", !.decoded = DecodeInvoice(cdc.text)]
    /\ UNCHANGED <<statuses, settings, dbVars, gen, ret, wh, conf, fee, auxVars>>

NextCodec == Encode \/ Decode

SpecCodec == InitCodec /\ [][NextCodec]_vars

-----------------------------------------------------------------------------
(* SpecFee: the admin fee of mayarService.CreatePaymentLink *)

\* Largest number of distinct periods in one payment.
MaxPeriods == 7

\* discount threshold used when min_month_discount is not set
DefaultMinMonths == 6

\* monthKey made of the month alone
MonthKey_MonthOnly(billing) == Itoa(billing.bulan.v)

\* monthKey: fmt.Sprintf("%d-%d", *billing.Tahun, *billing.Bulan)
MonthKey(billing) == Itoa(billing.tahun.v) \o <<"-">> \o Itoa(billing.bulan.v)

\* monthsMap: the keys of the billings that have both a month and a year
MonthsMap(bs) ==
    { MonthKey(bs[i]) : i \in { j \in 1..Len(bs) : bs[j].bulan.set /\ bs[j].tahun.set } }

\* AdminFee that never applies the cap
AdminFee_NoCap(paymentConfig, bs) ==
    LET totalMonths    == Cardinality(MonthsMap(bs))
        basePaymentFee == IF paymentConfig.PaymentFee.set
                          THEN paymentConfig.PaymentFee.v ELSE 0
        isFixedFee     == paymentConfig.IsFixedFee.set /\ paymentConfig.IsFixedFee.v
    IN  IF isFixedFee THEN basePaymentFee ELSE totalMonths * basePaymentFee

\* AdminFee that ignores the fixed-fee flag
AdminFee_IgnoreFixed(paymentConfig, bs) ==
    LET totalMonths    == Cardinality(MonthsMap(bs))
        basePaymentFee == IF paymentConfig.PaymentFee.set
                          THEN paymentConfig.PaymentFee.v ELSE 0
        minMonths      == IF paymentConfig.MinMonthDiscount.set
                          THEN paymentConfig.MinMonthDiscount.v ELSE DefaultMinMonths
    IN  IF totalMonths < minMonths THEN totalMonths * basePaymentFee
        ELSE IF paymentConfig.MaxFee.set THEN paymentConfig.MaxFee.v
        ELSE totalMonths * basePaymentFee

\* AdminFee counting the billings instead of their distinct periods
AdminFee_CountBillings(paymentConfig, bs) ==
    LET totalMonths    == Len(bs)
        basePaymentFee == IF paymentConfig.PaymentFee.set
                          THEN paymentConfig.PaymentFee.v ELSE 0
        isFixedFee     == paymentConfig.IsFixedFee.set /\ paymentConfig.IsFixedFee.v
        minMonths      == IF paymentConfig.MinMonthDiscount.set
                          THEN paymentConfig.MinMonthDiscount.v ELSE DefaultMinMonths
    IN  IF isFixedFee THEN basePaymentFee
        ELSE IF totalMonths < minMonths THEN totalMonths * basePaymentFee
        ELSE IF paymentConfig.MaxFee.set THEN paymentConfig.MaxFee.v
        ELSE totalMonths * basePaymentFee

\* The admin fee computed from the payment config and the billings of the link.
AdminFee(paymentConfig, bs) ==
    LET totalMonths    == Cardinality(MonthsMap(bs))
        basePaymentFee == IF paymentConfig.PaymentFee.set
                          THEN paymentConfig.PaymentFee.v ELSE 0
        isFixedFee     == paymentConfig.IsFixedFee.set /\ paymentConfig.IsFixedFee.v
        minMonths      == IF paymentConfig.MinMonthDiscount.set
                          THEN paymentConfig.MinMonthDiscount.v ELSE DefaultMinMonths
    IN  IF isFixedFee THEN basePaymentFee
        ELSE IF totalMonths < minMonths THEN totalMonths * basePaymentFee
        ELSE IF paymentConfig.MaxFee.set THEN paymentConfig.MaxFee.v
        ELSE totalMonths * basePaymentFee

\* The i-th period of a payment: November 2025, December 2025, January 2026, ...
PeriodAt(i) == [bulan |-> Some(((i + 9) % 12) + 1), tahun |-> Some(2025 + ((i + 9) \div 12))]

\* Billings added to the distinct periods: none, a second billing of the first
\* period, a billing of the same month a year later, a billing without a month,
\* both a second billing of the first period and one of that month a year later.
Extras == { <<>>, <<PeriodAt(1)>>, <<[bulan |-> Some(11), tahun |-> Some(2026)]>>,
            <<[bulan |-> Nil, tahun |-> Some(2025)]>>,
            <<PeriodAt(1), [bulan |-> Some(11), tahun |-> Some(2026)]>> }

FeeBillings == { [i \in 1..n |-> PeriodAt(i)] \o x : n \in 0..MaxPeriods, x \in Extras }

PaymentConfigs ==
    [PaymentFee : {Nil, Some(20000), Some(2500), Some(0 - 2500)},
     IsFixedFee : {Nil, Some(TRUE), Some(FALSE)},
     MinMonthDiscount : {Nil, Some(3), Some(0)},
     MaxFee : {Nil, Some(20000), Some(0 - 1)}]

InitFee ==
    /\ statuses = <<>>
    /\ settings = <<>>
    /\ billings = <<>>
    /\ profileLinks = <<>>
    /\ statusLinks = <<>>
    /\ kategoriLinks = <<>>
    /\ gen = [p \in Callers |-> Idle]
    /\ ret = NoReturn
    /\ wh = NoRequest
    /\ conf = NoConf
    /\ cdc = NoCodec
    /\ link = NoLink
    /\ sched = NoSched
    /\ hook = NoHook
    /\ \E c \in PaymentConfigs, bs \in FeeBillings :
           fee = [NoFee EXCEPT !.pc = "start", !.config = c, !.billings = bs]

\* CreatePaymentLink computes the admin fee of the payment.
ComputeFee ==
    /\ fee.pc = "start"
    /\ fee' = [fee EXCEPT !.pc = "done", !.adminFee = AdminFee(fee.config, fee.billings)]
    /\ UNCHANGED <<statuses, settings, dbVars, gen, ret, wh, conf, cdc, auxVars>>

NextFee == ComputeFee

SpecFee == InitFee /\ [][NextFee]_vars

-----------------------------------------------------------------------------
(* SpecLink: payment-link issuance (paymentService, mayarService) *)

\* Largest billings table a payment link is requested against.
MaxLinkRows == 2

NoDoc == [set |-> FALSE, v |-> <<>>]

\* Billing rows as the issuer reads them: Nominal and DocumentID are pointers.
LinkRows ==
    { [nominal |-> Some(100), doc |-> Some(Monthly \o <<"a">>)],
      [nominal |-> Some(50),  doc |-> NoDoc],
      [nominal |-> Nil,       doc |-> Some(Monthly \o <<"b">>)],
      [nominal |-> Some(0),   doc |-> NoDoc],
      [nominal |-> Some(0 - 5), doc |-> NoDoc] }

\* tables of 1..MaxLinkRows rows; a row's id is its position
LinkTables == ListsUpTo(LinkRows, MaxLinkRows) \ { <<>> }

\* requested id lists: up to two ids, among them one past the end of the table
LinkRequests == ListsUpTo(1..(MaxLinkRows + 1), 2)

\* What the provider side of an issuance does: the payment config cannot be
\* read, the auth key is not configured, the HTTP call fails (timeout included),
\* the provider answers with a status other than 200, the body does not parse,
\* the response carries no link, or the link is returned.
Providers == {"ok", "noConfig", "noAuthKey", "httpError", "non2xx", "malformed", "noLink"}

Loaded(table, id) == [id |-> id, nominal |-> table[id].nominal, doc |-> table[id].doc]

\* billingRepo.GetBillingByID: First() fails when no row has the id
GetBillingByID(table, id) ==
    IF id \in 1..Len(table) THEN [err |-> NoErr, rows |-> <<Loaded(table, id)>>]
    ELSE [err |-> "record not found", rows |-> <<>>]

\* billingRepo.GetBillingsByIDs: the rows whose id is among the ids (WHERE id IN),
\* each once, in id order; ids without a row are not an error
GetBillingsByIDs(table, billingIDs, dbFails) ==
    IF dbFails THEN [err |-> "query failed", rows |-> <<>>]
    ELSE LET found == SelectSeq([i \in 1..Len(table) |-> i],
                                LAMBDA i : i \in Range(billingIDs))
         IN  [err |-> NoErr, rows |-> [k \in 1..Len(found) |-> Loaded(table, found[k])]]

\* the nominal check of one billing skipped
InvalidNominal_FirstOnly(bs) ==
    bs # <<>> /\ (~bs[1].nominal.set \/ bs[1].nominal.v <= 0)

\* billing.Nominal == nil || *billing.Nominal <= 0, for some billing of the list
InvalidNominal(bs) ==
    \E i \in 1..Len(bs) : ~bs[i].nominal.set \/ bs[i].nominal.v <= 0

RECURSIVE TotalAmount(_)
TotalAmount(bs) == IF bs = <<>> THEN 0 ELSE Head(bs).nominal.v + TotalAmount(Tail(bs))

\* the DocumentIDs of the billings that have one
ListDocumentIDs(bs) ==
    LET with == SelectSeq(bs, LAMBDA b : b.doc.set)
    IN  [i \in 1..Len(with) |-> with[i].doc.v]

\* The payment link in the provider's response to an accepted invoice
ProviderLink == <<"h", "t", "t", "p", "s", ":", "/", "/", "m", "y", "r", ".", "i", "d",
                  "/", "i", "n", "v">>

\* CreateInvoice: one POST to the provider; the error it returns, and the link of
\* the parsed response (empty when the response carries none)
CreateInvoice(provider) ==
    IF provider = "httpError" THEN [sent |-> 1, err |-> "failed to send request", url |-> <<>>]
    ELSE IF provider = "non2xx"
        THEN [sent |-> 1, err |-> "Mayar API returned status", url |-> <<>>]
    ELSE IF provider = "malformed"
        THEN [sent |-> 1, err |-> "failed to parse response", url |-> <<>>]
    ELSE IF provider = "noLink" THEN [sent |-> 1, err |-> NoErr, url |-> <<>>]
    ELSE [sent |-> 1, err |-> NoErr, url |-> ProviderLink]

\* mayarService.CreatePaymentLink with a second attempt after a failed request
MayarCreatePaymentLink_Retry(billingIDsStr, documentIDs, provider) ==
    LET text == ProductDescription(billingIDsStr, documentIDs)
        r    == CreateInvoice(provider)
    IN  IF provider = "noConfig"
            THEN [called |-> FALSE, sent |-> 0, err |-> "failed to get payment config",
                  text |-> <<>>, url |-> <<>>]
        ELSE IF provider = "noAuthKey"
            THEN [called |-> FALSE, sent |-> 0, err |-> "Mayar auth key not configured",
                  text |-> <<>>, url |-> <<>>]
        ELSE IF r.err # NoErr
            THEN [called |-> TRUE, sent |-> r.sent + 1, err |-> r.err, text |-> text,
                  url |-> <<>>]
        ELSE IF r.url = <<>>
            THEN [called |-> TRUE, sent |-> r.sent,
                  err |-> "payment link not found in response", text |-> text,
                  url |-> <<>>]
        ELSE [called |-> TRUE, sent |-> r.sent, err |-> NoErr, text |-> text, url |-> r.url]

\* mayarService.CreatePaymentLink: `called` tells whether the invoice request was
\* sent to the provider, `sent` how many requests were sent, `text` is the
\* description of the invoice, `url` the link returned
MayarCreatePaymentLink(billingIDsStr, documentIDs, provider) ==
    LET text == ProductDescription(billingIDsStr, documentIDs)
        r    == CreateInvoice(provider)
    IN  IF provider = "noConfig"
            THEN [called |-> FALSE, sent |-> 0, err |-> "failed to get payment config",
                  text |-> <<>>, url |-> <<>>]
        ELSE IF provider = "noAuthKey"
            THEN [called |-> FALSE, sent |-> 0, err |-> "Mayar auth key not configured",
                  text |-> <<>>, url |-> <<>>]
        ELSE IF r.err # NoErr
            THEN [called |-> TRUE, sent |-> r.sent, err |-> r.err, text |-> text,
                  url |-> <<>>]
        ELSE IF r.url = <<>>
            THEN [called |-> TRUE, sent |-> r.sent,
                  err |-> "payment link not found in response", text |-> text,
                  url |-> <<>>]
        ELSE [called |-> TRUE, sent |-> r.sent, err |-> NoErr, text |-> text, url |-> r.url]

\* What an issuance returns: the error, or the PaymentLinkResponse (amount,
\* url, description); `called`, `sent`, `text` and `charged` tell what went to
\* the provider.
NoIssue == [called |-> FALSE, sent |-> 0, err |-> NoErr, amount |-> 0, text |-> <<>>,
            url |-> <<>>, description |-> <<>>, charged |-> {}]

Failed(err) == [NoIssue EXCEPT !.err = err]

\* fmt.Sprintf("Payment for %d billings", n)
PaymentFor(n) ==
    <<"P", "a", "y", "m", "e", "n", "t", " ", "f", "o", "r", " ">> \o Itoa(n)
        \o <<" ", "b", "i", "l", "l", "i", "n", "g", "s">>

\* The billings that make up the items of the invoice: those with a Nominal
ItemIDs(bs) == { bs[i].id : i \in { j \in 1..Len(bs) : bs[j].nominal.set } }

\* Issue with the amount of the first billing as the response's amount
Issue_AmountOfFirst(bs, n, billingIDsStr, documentIDs, provider) ==
    LET m == MayarCreatePaymentLink(billingIDsStr, documentIDs, provider)
    IN  IF m.err # NoErr
        THEN [NoIssue EXCEPT !.called = m.called, !.sent = m.sent, !.text = m.text,
                             !.err = "failed to create payment link"]
        ELSE [called |-> TRUE, sent |-> m.sent, err |-> NoErr, amount |-> bs[1].nominal.v,
              text |-> m.text, url |-> m.url, description |-> PaymentFor(n),
              charged |-> ItemIDs(bs)]

\* The issuance once the billings are loaded and validated; n is the number the
\* response's description is formatted with
Issue(bs, n, billingIDsStr, documentIDs, provider) ==
    LET m == MayarCreatePaymentLink(billingIDsStr, documentIDs, provider)
    IN  IF m.err # NoErr
        THEN [NoIssue EXCEPT !.called = m.called, !.sent = m.sent, !.text = m.text,
                             !.err = "failed to create payment link"]
        ELSE [called |-> TRUE, sent |-> m.sent, err |-> NoErr, amount |-> TotalAmount(bs),
              text |-> m.text, url |-> m.url, description |-> PaymentFor(n),
              charged |-> ItemIDs(bs)]

\* paymentService.CreatePaymentLink(billingID)
PaymentLinkSingle(table, billingID, provider) ==
    LET got == GetBillingByID(table, billingID)
    IN  IF got.err # NoErr THEN Failed("billing record not found")
        ELSE IF InvalidNominal(got.rows) THEN Failed("invalid billing nominal")
        ELSE Issue(got.rows, 1, Itoa(billingID),
                   IF got.rows[1].doc.set THEN got.rows[1].doc.v ELSE <<>>, provider)

\* paymentService.CreatePaymentLinkMultiple(billingIDs)
PaymentLinkMultiple(table, billingIDs, dbFails, provider) ==
    LET got == GetBillingsByIDs(table, billingIDs, dbFails)
    IN  IF Len(billingIDs) = 0 THEN Failed("billing IDs cannot be empty")
        ELSE IF got.err # NoErr THEN Failed("failed to get billing records")
        ELSE IF Len(got.rows) = 0 THEN Failed("no billing records found")
        ELSE IF InvalidNominal(got.rows) THEN Failed("invalid billing nominal")
        ELSE Issue(got.rows, Len(billingIDs), BillingIDsStr(billingIDs),
                   DocumentIDsStr(ListDocumentIDs(got.rows)), provider)

InitLink ==
    /\ statuses = <<>>
    /\ settings = <<>>
    /\ billings = <<>>
    /\ profileLinks = <<>>
    /\ statusLinks = <<>>
    /\ kategoriLinks = <<>>
    /\ gen = [p \in Callers |-> Idle]
    /\ ret = NoReturn
    /\ wh = NoRequest
    /\ conf = NoConf
    /\ cdc = NoCodec
    /\ fee = NoFee
    /\ sched = NoSched
    /\ hook = NoHook
    /\ \E t \in LinkTables :
           link = [pc |-> "idle", table |-> t, multiple |-> FALSE, ids |-> <<>>,
                   dbFails |-> FALSE, provider |-> "ok", out |-> NoIssue]

LinkDone(multiple, ids, dbFails, provider, out) ==
    /\ link.pc = "idle"
    /\ link' = [link EXCEPT !.pc = "done", !.multiple = multiple, !.ids = ids,
                            !.dbFails = dbFails, !.provider = provider, !.out = out]
    /\ UNCHANGED <<statuses, settings, dbVars, gen, ret, wh, conf, cdc, fee, sched, hook>>

CreatePaymentLink(billingID, provider) ==
    LinkDone(FALSE, <<billingID>>, FALSE, provider,
             PaymentLinkSingle(link.table, billingID, provider))

CreatePaymentLinkMultiple(billingIDs, dbFails, provider) ==
    LinkDone(TRUE, billingIDs, dbFails, provider,
             PaymentLinkMultiple(link.table, billingIDs, dbFails, provider))

NextLink ==
    \/ \E id \in 1..(MaxLinkRows + 1), pr \in Providers : CreatePaymentLink(id, pr)
    \/ \E ids \in LinkRequests, f \in BOOLEAN, pr \in Providers :
           CreatePaymentLinkMultiple(ids, f, pr)

SpecLink == InitLink /\ [][NextLink]_vars

-----------------------------------------------------------------------------
(* SpecScheduler: the scheduled job createMonthlyBillings and its audit log *)

\* Number of fires of the cron job.
MaxFires == 2

FireIDs == 1..MaxFires

\* docID := uuid.New().String(), one per fire
DocID(f) == <<"u", "u", "i", "d", "-">> \o Itoa(f)

\* A run of the job: its position, its docID, what it has done so far (the audit
\* writes attempted, each with whether the insert succeeded, and the call of the
\* generation), the batch it prepared, the error the generation returned and the
\* FailedCount of the response it returned.
NoRun == [pc |-> "idle", doc |-> <<>>, trace |-> <<>>, g |-> Idle, err |-> NoErr,
          FailedCount |-> 0]

\* the period of the fire: int(now.Month()), now.Year()
FirePeriod == CHOOSE per \in Periods : TRUE

\* logScheduler: the entry is appended unless CreateLogScheduler fails; the
\* failure is logged and not returned
logScheduler(log, documentID, status, ok) ==
    IF ok THEN Append(log, [doc |-> documentID, status |-> status]) ELSE log

\* the final status always SUCCESS
FinalStatus_AlwaysSuccess(err) == "SUCCESS"

\* FAILED when the generation returned an error, SUCCESS otherwise
FinalStatus(err) == IF err # NoErr THEN "FAILED" ELSE "SUCCESS"

InitScheduler ==
    /\ \E w \in Worlds : statuses = w.statuses /\ settings = w.settings
    /\ billings = <<>>
    /\ profileLinks = <<>>
    /\ statusLinks = <<>>
    /\ kategoriLinks = <<>>
    /\ gen = [p \in Callers |-> Idle]
    /\ ret = NoReturn
    /\ wh = NoRequest
    /\ conf = NoConf
    /\ cdc = NoCodec
    /\ fee = NoFee
    /\ link = NoLink
    /\ hook = NoHook
    /\ sched = [runs |-> [f \in FireIDs |-> NoRun], log |-> <<>>]

schedFrame == <<statuses, settings, gen, ret, wh, conf, cdc, fee, link, hook>>

\* SchedLog where a failed insert ends the run
SchedLog_StopOnFailure(f, at, to, status, ok) ==
    /\ sched.runs[f].pc = at
    /\ sched' = [sched EXCEPT
                   !.log = logScheduler(@, sched.runs[f].doc, status, ok),
                   !.runs[f].pc = IF ok THEN to ELSE "stopped",
                   !.runs[f].trace = Append(@, [ev |-> status, ok |-> ok])]
    /\ UNCHANGED <<schedFrame, dbVars>>

\* One audit write of run f at position `at`, leaving it at position `to`
SchedLog(f, at, to, status, ok) ==
    /\ sched.runs[f].pc = at
    /\ sched' = [sched EXCEPT
                   !.log = logScheduler(@, sched.runs[f].doc, status, ok),
                   !.runs[f].pc = to,
                   !.runs[f].trace = Append(@, [ev |-> status, ok |-> ok])]
    /\ UNCHANGED <<schedFrame, dbVars>>

\* the cron fires: a run of createMonthlyBillings starts with a fresh docID.  The
\* schedule's period is longer than a run: a fire finds the run before it ended.
SchedFire(f) ==
    /\ sched.runs[f].pc = "idle"
    /\ f > 1 => sched.runs[f - 1].pc = "done"
    /\ sched' = [sched EXCEPT !.runs[f].pc = "start", !.runs[f].doc = DocID(f)]
    /\ UNCHANGED <<schedFrame, dbVars>>

SchedLogStart(f, ok) == SchedLog(f, "start", "running", "START", ok)

SchedLogRunning(f, ok) == SchedLog(f, "running", "generate", "RUNNING", ok)

\* CreateBulkMonthlyBillingsForAllUsers(month, year), up to its transaction
SchedGenerate(f, queryFails) ==
    /\ sched.runs[f].pc = "generate"
    /\ LET g == PrepareMonthly(<<>>, FirePeriod, queryFails, statuses, settings,
                               billings, profileLinks)
       IN  sched' = [sched EXCEPT
                       !.runs[f].pc = IF g.pc = "tx" THEN "tx" ELSE "final",
                       !.runs[f].g = IF g.pc = "tx" THEN g ELSE Idle,
                       !.runs[f].err = g.err,
                       !.runs[f].FailedCount = g.resp.FailedCount,
                       !.runs[f].trace = Append(@, [ev |-> "GENERATE", ok |-> TRUE])]
    /\ UNCHANGED <<schedFrame, dbVars>>

\* the transaction of the generation; its failure is reported in the response,
\* the error returned is nil
SchedTransaction(f, fault) ==
    /\ sched.runs[f].pc = "tx"
    /\ LET r == TxCreateBulk(DB, sched.runs[f].g, fault)
       IN  /\ billings' = r.db.billings
           /\ profileLinks' = r.db.profileLinks
           /\ statusLinks' = r.db.statusLinks
           /\ kategoriLinks' = r.db.kategoriLinks
           /\ sched' = [sched EXCEPT !.runs[f].pc = "final", !.runs[f].g = Idle,
                                     !.runs[f].err = NoErr,
                                     !.runs[f].FailedCount = r.resp.FailedCount]
    /\ UNCHANGED schedFrame

SchedLogFinal(f, ok) ==
    SchedLog(f, "final", "done", FinalStatus(sched.runs[f].err), ok)

\* a step of run f of the job
JobStep(f) ==
    \/ \E ok \in BOOLEAN : SchedLogStart(f, ok)
    \/ \E ok \in BOOLEAN : SchedLogRunning(f, ok)
    \/ \E qf \in BOOLEAN : SchedGenerate(f, qf)
    \/ \E fault \in Faults : SchedTransaction(f, fault)
    \/ \E ok \in BOOLEAN : SchedLogFinal(f, ok)

NextScheduler ==
    \/ \E f \in FireIDs : SchedFire(f)
    \/ \E f \in FireIDs, ok \in BOOLEAN : SchedLogStart(f, ok)
    \/ \E f \in FireIDs, ok \in BOOLEAN : SchedLogRunning(f, ok)
    \/ \E f \in FireIDs, qf \in BOOLEAN : SchedGenerate(f, qf)
    \/ \E f \in FireIDs, fault \in Faults : SchedTransaction(f, fault)
    \/ \E f \in FireIDs, ok \in BOOLEAN : SchedLogFinal(f, ok)

SpecScheduler == InitScheduler /\ [][NextScheduler]_vars

\* A run that has started takes its next step: the job is straight-line code
\* whose calls return.
SpecSchedulerFair ==
    InitScheduler /\ [][NextScheduler]_vars /\ \A f \in FireIDs : WF_vars(JobStep(f))

-----------------------------------------------------------------------------
(* SpecWebhook: one webhook at a time through ConfirmPaymentWebhook, step by step *)

\* The tables after one committed monthly batch for users 2 and 1
BilledDB ==
    LET w == CHOOSE x \in Worlds : DefaultStatus(x.statuses).err = NoErr
                                   /\ GetActiveMonthlySettingBillings(x.settings) # <<>>
        empty == [billings |-> <<>>, profileLinks |-> <<>>, statusLinks |-> <<>>,
                  kategoriLinks |-> <<>>]
        g == PrepareMonthly(<<2, 1>>, FirePeriod, FALSE, w.statuses, w.settings,
                            <<>>, <<>>)
    IN  TxCreateBulk(empty, g, "none").db

\* A webhook in the handler: where it is, what it carries (transaction.status,
\* order.invoice_number), the ids decoded, the
\* transaction's view of the status links and the number of updates it has run,
\* the response written, and how often it was decoded and a transaction begun.
IdleHook == [pc |-> "idle", status |-> "", invoice |-> <<>>, ids |-> <<>>, before |-> <<>>,
             work |-> <<>>, i |-> 0, response |-> "none", decodes |-> 0, txs |-> 0]

InitWebhook ==
    /\ statuses = <<>>
    /\ settings = <<>>
    /\ billings = BilledDB.billings
    /\ profileLinks = BilledDB.profileLinks
    /\ statusLinks = BilledDB.statusLinks
    /\ kategoriLinks = BilledDB.kategoriLinks
    /\ gen = [p \in Callers |-> Idle]
    /\ ret = NoReturn
    /\ wh = NoRequest
    /\ conf = NoConf
    /\ cdc = NoCodec
    /\ fee = NoFee
    /\ link = NoLink
    /\ sched = NoSched
    /\ hook = IdleHook

\* order.invoice_number values of the webhooks considered here
HookInvoices == Invoices \cup { INV \o <<"3">>, INV \o <<"4", ",", "1">> }

hookFrame == <<statuses, settings, gen, ret, wh, conf, cdc, fee, link, sched>>

HookEnded == hook.pc \in {"idle", "committed", "rejected_parse", "rejected_db", "panicked"}

\* transaction.status of the webhooks considered; "" when the payload has none
WebhookStatuses == {"", "SUCCESS", "FAILED"}

\* ShouldBindJSON: a payload that does not bind is answered 400; the status of
\* one that binds is read and logged
HookReceive(bound, invoice, status) ==
    /\ HookEnded
    /\ hook' = IF bound
               THEN [IdleHook EXCEPT !.pc = "received", !.invoice = invoice,
                                     !.status = status, !.before = statusLinks]
               ELSE [IdleHook EXCEPT !.pc = "rejected_parse", !.response = "400",
                                     !.before = statusLinks]
    /\ UNCHANGED <<hookFrame, dbVars>>

\* the id list is read from order.invoice_number
HookDecode ==
    /\ hook.pc = "received"
    /\ LET dec == DecodeInvoice(hook.invoice)
       IN  hook' = [hook EXCEPT
                      !.decodes = @ + 1,
                      !.ids = dec.ids,
                      !.pc = IF dec.panic THEN "panicked"
                             ELSE IF dec.err # NoErr THEN "rejected_parse"
                             ELSE "decoded",
                      !.response = IF dec.panic THEN "none"
                                   ELSE IF dec.err # NoErr THEN "400" ELSE "none"]
    /\ UNCHANGED <<hookFrame, dbVars>>

\* ConfirmPayment: s.db.Transaction begins
HookBegin ==
    /\ hook.pc = "decoded"
    /\ hook' = [hook EXCEPT !.pc = "reconciling", !.txs = @ + 1, !.work = statusLinks,
                            !.i = 0]
    /\ UNCHANGED <<hookFrame, dbVars>>

\* the update of the next id inside the transaction; a failed update ends the
\* transaction with a rollback and the handler with a 500
HookUpdate(fails) ==
    /\ hook.pc = "reconciling"
    /\ hook.i < Len(hook.ids)
    /\ hook' = IF fails
               THEN [hook EXCEPT !.pc = "rejected_db", !.response = "500",
                                 !.work = <<>>]
               ELSE [hook EXCEPT !.i = @ + 1,
                                 !.work = UpdateStatusLinks(@, hook.ids[hook.i + 1])]
    /\ UNCHANGED <<hookFrame, dbVars>>

\* the commit of the transaction, and the response
HookCommit(fails) ==
    /\ hook.pc = "reconciling"
    /\ hook.i = Len(hook.ids)
    /\ IF fails
       THEN /\ hook' = [hook EXCEPT !.pc = "rejected_db", !.response = "500",
                                    !.work = <<>>]
            /\ UNCHANGED dbVars
       ELSE /\ hook' = [hook EXCEPT !.pc = "committed", !.response = "200",
                                    !.work = <<>>]
            /\ statusLinks' = hook.work
            /\ UNCHANGED <<billings, profileLinks, kategoriLinks>>
    /\ UNCHANGED hookFrame

NextWebhook ==
    \/ \E b \in BOOLEAN, inv \in HookInvoices, st \in WebhookStatuses :
           HookReceive(b, inv, st)
    \/ HookDecode
    \/ HookBegin
    \/ \E f \in BOOLEAN : HookUpdate(f)
    \/ \E f \in BOOLEAN : HookCommit(f)

SpecWebhook == InitWebhook /\ [][NextWebhook]_vars

-----------------------------------------------------------------------------
(* SpecOverlap: two bulk generation requests served at the same time *)

\* The requests in flight: gin serves each request on its own goroutine
Runs == {"c1", "c2"}

\* user_ids of the overlapping requests: none (the derived cohort), one known id
OverlapUserIDs == { <<>>, <<1>> }

InitOverlap ==
    /\ \E w \in Worlds : statuses = w.statuses /\ settings = w.settings
    /\ billings = <<>>
    /\ profileLinks = <<>>
    /\ statusLinks = <<>>
    /\ kategoriLinks = <<>>
    /\ gen = [p \in Runs |-> Idle]
    /\ ret = NoReturn
    /\ wh = NoRequest
    /\ conf = NoConf
    /\ cdc = NoCodec
    /\ fee = NoFee
    /\ link = NoLink
    /\ sched = NoSched
    /\ hook = NoHook

NextOverlap ==
    \/ \E p \in Runs, u \in OverlapUserIDs, per \in Periods :
           CreateBulkMonthlyBillings(p, u, per, FALSE)
    \/ \E p \in Runs, f \in Faults : BulkTransaction(p, f)

SpecOverlap == InitOverlap /\ [][NextOverlap]_vars

-----------------------------------------------------------------------------
(* Properties *)

\* A step of one of the two confirmation handlers
ConfirmRequest ==
    \/ \E id \in BillingIDs, f \in 0..2 : ConfirmPaymentSingle(id, f)
    \/ \E b \in BOOLEAN, inv \in Invoices, f \in 0..3 : ConfirmPaymentWebhook(b, inv, f)

\* the table `after` is the table `before` with n rows appended
Appended(before, after, n) ==
    /\ Len(after) = Len(before) + n
    /\ SubSeq(after, 1, Len(before)) = before

\* the number of published definitions a monthly / a custom call bills
MonthlyDefinitions ==
    Cardinality({ i \in 1..Len(settings) :
        settings[i].jenis = "bulanan" /\ settings[i].active /\ settings[i].published })

CustomDefinitions(sid) ==
    Cardinality({ i \in 1..Len(settings) : settings[i].id = sid /\ settings[i].published })

\* C1: a batch for k residents against m published definitions prepares k*m
\* billings, and its transaction adds either exactly that many rows to the
\* billings table and to each of the three link tables, or no row to any of them;
\* with a failure injected at any point (billing insert, a link insert, commit)
\* it adds none.
C1_BatchAtomic ==
    [][ /\ \A p \in Callers, u \in UserIDLists, per \in Periods :
             /\ CreateBulkMonthlyBillings(p, u, per, FALSE) /\ gen'[p].pc = "tx"
                  => Len(gen'[p].billings) =
                         Len(ResolveUsers(u, per, billings, profileLinks)) * MonthlyDefinitions
             /\ \A sid \in SettingIDs :
                  CreateBulkCustomBillings(p, u, sid, per, FALSE) /\ gen'[p].pc = "tx"
                  => Len(gen'[p].billings) =
                         Len(ResolveUsers(u, per, billings, profileLinks))
                             * CustomDefinitions(sid)
        /\ \A p \in Callers, f \in Faults :
             BulkTransaction(p, f) =>
                LET n == Len(gen[p].billings)
                IN  /\ \/ /\ Appended(billings, billings', n)
                          /\ Appended(profileLinks, profileLinks', n)
                          /\ Appended(statusLinks, statusLinks', n)
                          /\ Appended(kategoriLinks, kategoriLinks', n)
                       \/ UNCHANGED dbVars
                    /\ f # "none" => UNCHANGED dbVars
                    /\ f = "none" => Len(billings') = Len(billings) + n
      ]_vars

\* a batch of 2 residents x 2 definitions failed after its billings were inserted,
\* and the tables are empty
C1_Witness ==
    /\ ret.caller # "none"
    /\ ret.fault = "statusLinks"
    /\ ret.resp.TotalUsers = 2
    /\ ret.resp.TotalBillings = 4
    /\ billings = <<>>

RowsOf(links, b) == { i \in 1..Len(links) : links[i].billing = b }

C3_CountsMatchCommit ==
    (ret.caller # "none" /\ ~ret.resp.isNil) =>
        /\ ret.fault # "none" => /\ ret.resp.SuccessCount = 0
                                 /\ ret.resp.FailedCount = ret.resp.TotalBillings
                                 /\ ret.resp.Errors # <<>>
        /\ ret.fault = "none" => /\ ret.resp.SuccessCount = ret.resp.TotalBillings
                                 /\ ret.resp.FailedCount = 0
        /\ ret.resp.SuccessCount = ret.committed

\* the call returns the zero result, with a nil error, without reaching its
\* transaction and without a change to any table
EmptyResult(p) ==
    /\ ret' = [NoReturn EXCEPT !.caller = p, !.resp = Resp(0, 0, 0, 0, <<>>)]
    /\ gen'[p].pc = "idle"
    /\ UNCHANGED dbVars

\* C4: a bulk call whose resolved cohort is empty returns TotalUsers = 0,
\* TotalBillings = 0, SuccessCount = 0, FailedCount = 0 and a nil error, opens no
\* transaction and changes no row.
C4_EmptyCohort ==
    [][ \A p \in Callers, u \in UserIDLists, per \in Periods :
          LET empty == /\ DefaultStatus(statuses).err = NoErr
                       /\ ResolveUsers(u, per, billings, profileLinks) = <<>>
          IN  /\ ( /\ CreateBulkMonthlyBillings(p, u, per, FALSE)
                   /\ GetActiveMonthlySettingBillings(settings) # <<>>
                   /\ empty ) => EmptyResult(p)
              /\ \A sid \in SettingIDs :
                   ( /\ CreateBulkCustomBillings(p, u, sid, per, FALSE)
                     /\ GetBillingSettingsByID(settings, sid).err = NoErr
                     /\ empty ) => EmptyResult(p)
      ]_vars

\* a call returned the zero result while billings exist
C4_Witness ==
    /\ ret.caller # "none"
    /\ ret.err = NoErr
    /\ ret.resp = Resp(0, 0, 0, 0, <<>>)
    /\ Len(billings) > 0

\* C5: a ConfirmPayment call that returns an error leaves every status link as it
\* was; one that returns nil leaves the status link of every id of the list that
\* has one on the Paid status.
C5_ConfirmAllOrNothing ==
    [][ (ConfirmRequest /\ conf'.called) =>
          /\ Len(statusLinks') = Len(statusLinks)
          /\ IF conf'.err # NoErr
             THEN statusLinks' = statusLinks /\ wh'.outcome = "500"
             ELSE /\ wh'.outcome = "200"
                  /\ \A i \in 1..Len(statusLinks') :
                        statusLinks'[i].billing \in Range(conf'.ids)
                            => statusLinks'[i].status = PaidStatusID
      ]_vars

\* the update of the second of two ids failed, and the unpaid status link of the
\* first id is as before
C5_Witness ==
    /\ conf.called
    /\ conf.err # NoErr
    /\ Len(conf.ids) = 2
    /\ conf.failAt = 2
    /\ \E i \in 1..Len(statusLinks) :
          statusLinks[i].billing = conf.ids[1] /\ statusLinks[i].status # PaidStatusID

\* C6: confirming the id list that the call just before confirmed successfully
\* changes no row of any table and succeeds again.
C6_ConfirmIdempotent ==
    [][ (ConfirmRequest /\ conf'.called /\ conf'.again /\ conf'.failAt = 0) =>
          /\ UNCHANGED dbVars
          /\ conf'.err = NoErr
          /\ wh'.outcome = "200"
      ]_vars

\* an id list with a billing in the table was confirmed twice in a row
C6_Witness ==
    /\ conf.called
    /\ conf.again
    /\ conf.err = NoErr
    /\ \E i \in 1..Len(statusLinks) : statusLinks[i].billing \in Range(conf.ids)

\* C7: decoding the correlation text of an id list, as the webhook handler
\* decodes, gives back the id list.
C7_RoundTrip ==
    cdc.pc = "decoded" =>
        /\ ~cdc.decoded.panic
        /\ cdc.decoded.err = NoErr
        /\ cdc.decoded.ids = cdc.ids

IsNumber(tok) == tok # <<>> /\ \A i \in 1..Len(tok) : IsDigit(tok[i])

\* the tokens of the id part of a text, none when the text has no id part
IdTokens(text) ==
    LET parts == Split(text, "-")
    IN  IF Len(parts) < 3 \/ parts[3] = <<>> THEN <<>> ELSE Split(parts[3], ",")

\* C8: a webhook with a token in its id part that is not an unsigned decimal
\* integer is answered with a parse error and ConfirmPayment is not called.
C8_NonNumericRejected ==
    ( /\ wh.handler = "webhook"
      /\ wh.bound
      /\ \E i \in 1..Len(IdTokens(wh.invoice)) : ~IsNumber(IdTokens(wh.invoice)[i]) )
    => (wh.outcome = "400" /\ ~conf.called)

\* C9: a webhook whose text is empty or has no id token is answered with an error
\* response, the handler returning normally, and ConfirmPayment is not called.
C9_EmptyRejected ==
    (wh.handler = "webhook" /\ wh.bound /\ IdTokens(wh.invoice) = <<>>)
    => (wh.outcome = "400" /\ ~conf.called)

\* the distinct (month, year) pairs of the billings that have both
DistinctPeriods(bs) ==
    { <<bs[i].bulan.v, bs[i].tahun.v>> :
          i \in { j \in 1..Len(bs) : bs[j].bulan.set /\ bs[j].tahun.set } }

BaseFee(c) == IF c.PaymentFee.set THEN c.PaymentFee.v ELSE 0

Threshold(c) == IF c.MinMonthDiscount.set THEN c.MinMonthDiscount.v ELSE DefaultMinMonths

IsFixed(c) == c.IsFixedFee.set /\ c.IsFixedFee.v

\* C10: without the fixed-fee flag and with fewer distinct periods than the
\* threshold (6 when unset), the admin fee is the number of distinct periods times
\* the base fee.
C10_FeeBelowThreshold ==
    (fee.pc = "done" /\ ~IsFixed(fee.config)
        /\ Cardinality(DistinctPeriods(fee.billings)) < Threshold(fee.config))
    => fee.adminFee = Cardinality(DistinctPeriods(fee.billings)) * BaseFee(fee.config)

\* base fee 20000, threshold unset, 3 distinct periods among 4 billings: 60000
C10_Witness ==
    /\ fee.pc = "done"
    /\ fee.config.PaymentFee = Some(20000)
    /\ fee.config.IsFixedFee = Some(FALSE)
    /\ fee.config.MinMonthDiscount = Nil
    /\ Len(fee.billings) = 4
    /\ Cardinality(DistinctPeriods(fee.billings)) = 3
    /\ fee.adminFee = 60000

\* C11: without the fixed-fee flag and with at least as many distinct periods as
\* the threshold, the admin fee is the cap when one is configured, whatever the
\* number of periods, and the number of distinct periods times the base fee when
\* none is.
C11_FeeAtOrAboveThreshold ==
    (fee.pc = "done" /\ ~IsFixed(fee.config)
        /\ Cardinality(DistinctPeriods(fee.billings)) >= Threshold(fee.config))
    => fee.adminFee =
          IF fee.config.MaxFee.set THEN fee.config.MaxFee.v
          ELSE Cardinality(DistinctPeriods(fee.billings)) * BaseFee(fee.config)

\* 8 distinct periods, threshold unset, base fee 20000, cap 20000: 20000
C11_Witness ==
    /\ fee.pc = "done"
    /\ fee.config.IsFixedFee = Some(FALSE)
    /\ fee.config.MinMonthDiscount = Nil
    /\ fee.config.PaymentFee = Some(20000)
    /\ fee.config.MaxFee = Some(20000)
    /\ Cardinality(DistinctPeriods(fee.billings)) = 8
    /\ fee.adminFee = 20000

\* C12: with the fixed-fee flag set the admin fee is the base fee, whatever the
\* billings, the threshold and the cap.
C12_FixedFee ==
    (fee.pc = "done" /\ IsFixed(fee.config)) => fee.adminFee = BaseFee(fee.config)

\* fixed fee 2500 for 8 distinct periods with threshold 3 and cap 20000
C12_Witness ==
    /\ fee.pc = "done"
    /\ fee.config.IsFixedFee = Some(TRUE)
    /\ fee.config.PaymentFee = Some(2500)
    /\ fee.config.MinMonthDiscount = Some(3)
    /\ fee.config.MaxFee = Some(20000)
    /\ Cardinality(DistinctPeriods(fee.billings)) = 8
    /\ fee.adminFee = 2500

\* the admin fee as a function of the number n of distinct periods
FeeOfPeriods(c, n) ==
    IF IsFixed(c) THEN BaseFee(c)
    ELSE IF n < Threshold(c) THEN n * BaseFee(c)
    ELSE IF c.MaxFee.set THEN c.MaxFee.v
    ELSE n * BaseFee(c)

Reverse(s) == [i \in 1..Len(s) |-> s[Len(s) + 1 - i]]

\* C20: the admin fee is the fee of the number of distinct (month, year) pairs of
\* the billings, and it is the same for the billing list reversed and for the list
\* with every billing repeated.
C20_FeeCountsDistinctPeriods ==
    fee.pc = "done" =>
        /\ fee.adminFee =
              FeeOfPeriods(fee.config, Cardinality(DistinctPeriods(fee.billings)))
        /\ fee.adminFee = AdminFee(fee.config, Reverse(fee.billings))
        /\ fee.adminFee = AdminFee(fee.config, fee.billings \o fee.billings)

\* November 2025 twice, December 2025 and November 2026 in one payment: 3 periods
C20_Witness ==
    /\ fee.pc = "done"
    /\ fee.config.IsFixedFee = Nil
    /\ fee.config.MinMonthDiscount = Nil
    /\ fee.config.PaymentFee = Some(2500)
    /\ Len(fee.billings) = 4
    /\ fee.billings[3] = fee.billings[1]
    /\ fee.billings[4].bulan = fee.billings[1].bulan
    /\ fee.billings[4].tahun # fee.billings[1].tahun
    /\ fee.adminFee = 7500

\* the requested ids that reference a row of the table
Existing(l) == { id \in Range(l.ids) : id \in 1..Len(l.table) }

HasPositiveAmount(l, id) == l.table[id].nominal.set /\ l.table[id].nominal.v > 0

NotFoundErrors == {"billing record not found", "no billing records found"}

C14_NonPositiveAmountRejected ==
    (link.pc = "done" /\ ~link.dbFails) =>
        /\ (\E id \in Existing(link) : ~HasPositiveAmount(link, id))
               => (link.out.err = "invalid billing nominal" /\ ~link.out.called)
        /\ (link.out.err = NoErr)
               => \A id \in Existing(link) : HasPositiveAmount(link, id)

\* two billings requested together, the second with a zero amount: rejected
C14_Witness ==
    /\ link.pc = "done"
    /\ link.multiple
    /\ link.ids = <<1, 2>>
    /\ Len(link.table) = 2
    /\ HasPositiveAmount(link, 1)
    /\ link.table[2].nominal = Some(0)
    /\ link.out.err = "invalid billing nominal"
    /\ ~link.out.called

\* the statuses of the log entries that carry the docID of run f, in log order
EntriesOf(f) ==
    LET es == SelectSeq(sched.log, LAMBDA e : e.doc = sched.runs[f].doc)
    IN  [i \in 1..Len(es) |-> es[i].status]

\* the statuses of the audit writes of run f that succeeded, in the order made
WrittenBy(f) ==
    LET ws == SelectSeq(sched.runs[f].trace, LAMBDA t : t.ev # "GENERATE" /\ t.ok)
    IN  [i \in 1..Len(ws) |-> ws[i].ev]

C16_RunsTerminate ==
    \A f \in FireIDs : (sched.runs[f].pc # "idle") ~> (sched.runs[f].pc = "done")

\* the first run lost an audit entry and its generation returned an error; the
\* second run, fired after it, created billings and ended
C16_Witness ==
    /\ sched.runs[1].pc = "done"
    /\ sched.runs[1].err # NoErr
    /\ \E i \in 1..Len(sched.runs[1].trace) : ~sched.runs[1].trace[i].ok
    /\ sched.runs[2].pc = "done"
    /\ sched.runs[2].err = NoErr
    /\ Len(billings) > 0

\* the states of the webhook state machine and its transitions
HookStates ==
    {"idle", "received", "decoded", "reconciling", "committed", "rejected_parse",
     "rejected_db"}

HookEdges ==
    { <<"received", "decoded">>, <<"received", "rejected_parse">>,
      <<"decoded", "reconciling">>, <<"reconciling", "reconciling">>,
      <<"reconciling", "committed">>, <<"reconciling", "rejected_db">> }

\* C17: a webhook moves Received -> Decoded -> Reconciling -> Committed, or is
\* rejected with a parse error before any update, or with a database error with
\* the status links as they were; it is never in another state; a success
\* response is written only in Committed; it is decoded at most once and begins
\* at most one transaction.
C17_WebhookStateMachine ==
    [][ /\ hook'.pc \in HookStates
        /\ \/ hook'.pc = hook.pc
           \/ <<hook.pc, hook'.pc>> \in HookEdges
           \/ hook.pc \notin {"received", "decoded", "reconciling"}
        /\ hook'.pc = "rejected_parse" => (hook'.txs = 0 /\ statusLinks' = hook'.before)
        /\ hook'.pc = "rejected_db" => statusLinks' = hook'.before
        /\ hook'.response = "200" <=> hook'.pc = "committed"
        /\ hook'.pc # "committed" => statusLinks' = statusLinks
        /\ hook'.decodes <= 1
        /\ hook'.txs <= 1
      ]_vars

\* the pairs of billings rows of one resident for one definition and period
DuplicatesOf(u) ==
    { <<i, j>> \in (1..Len(billings)) \X (1..Len(billings)) :
        /\ i < j
        /\ billings[i] = billings[j]
        /\ \E a \in RowsOf(profileLinks, i), b \in RowsOf(profileLinks, j) :
               profileLinks[a].user = u /\ profileLinks[b].user = u }

\* C18: a run that has reached its transaction inserts the records it prepared,
\* whatever another run has committed since the records were prepared, and
\* succeeds; so two overlapping runs for the same cohort and period both succeed
\* and leave two billings for the same resident, definition and period.
C18_OverlapDuplicates ==
    [][ \A p \in Runs :
          (gen[p].pc = "tx" /\ gen'[p].pc = "idle" /\ ret'.fault = "none")
          => /\ billings' = billings \o gen[p].billings
             /\ ret'.err = NoErr
             /\ ret'.caller = p
             /\ ret'.committed = Len(gen[p].billings)
      ]_vars

\* both runs took the derived cohort (resident 2 is the only one in it), both
\* committed, and resident 2 has two billings for one definition and period
C18_Witness ==
    /\ \A p \in Runs : gen[p].pc = "idle"
    /\ ret.err = NoErr
    /\ ret.fault = "none"
    /\ ret.committed = 2
    /\ Len(billings) = 4
    /\ DuplicatesOf(2) # {}

\* the same for two runs with the explicit id 1 (not a resident, so never in the
\* derived cohort)
C18_WitnessExplicit ==
    /\ \A p \in Runs : gen[p].pc = "idle"
    /\ ret.err = NoErr
    /\ ret.fault = "none"
    /\ ret.committed = 2
    /\ Len(billings) = 4
    /\ DuplicatesOf(1) # {}

\* C19: a status link that targets Paid targets Paid after every step of batch
\* generation and of confirmation (payment-link issuance writes no table), and a
\* confirmation of a Paid billing leaves it Paid.
C19_PaidStaysPaid ==
    [][ \A i \in 1..Len(statusLinks) :
          statusLinks[i].status = PaidStatusID
          => /\ i <= Len(statusLinks')
             /\ statusLinks'[i].billing = statusLinks[i].billing
             /\ statusLinks'[i].status = PaidStatusID
      ]_vars

\* a batch was committed after a billing had been confirmed, and that billing's
\* link targets Paid next to the links of the new billings
C19_Witness ==
    /\ ret.caller # "none"
    /\ ret.committed > 0
    /\ \E i \in 1..Len(statusLinks) : statusLinks[i].status = PaidStatusID
    /\ \E i \in 1..Len(statusLinks) : statusLinks[i].status # PaidStatusID

\* C21: the computed admin fee is never negative, whatever the stored payment
\* config (unset fields, any base fee, cap and threshold) and whatever the
\* billings of the link.
C21_FeeNeverNegative ==
    fee.pc = "done" => fee.adminFee >= 0

\* C22: an issuance leaves the billings table and every link table as they were,
\* sends at most one invoice request to the provider, and returns an error
\* whenever the provider call failed or gave no link.
C22_IssuanceFrame ==
    [][ (link.pc = "idle" /\ link'.pc = "done")
        => /\ link'.table = link.table
           /\ UNCHANGED dbVars
           /\ link'.out.sent <= 1
           /\ link'.out.called <=> link'.out.sent = 1
           /\ (link'.out.called /\ link'.provider # "ok") => link'.out.err # NoErr
           /\ link'.out.err # NoErr
                 => (link'.out.url = <<>> /\ link'.out.amount = 0)
      ]_vars

\* the provider answered the one request of an issuance for two billings with a
\* status other than 200
C22_Witness ==
    /\ link.pc = "done"
    /\ link.multiple
    /\ Len(link.ids) = 2
    /\ link.provider = "non2xx"
    /\ link.out.sent = 1
    /\ link.out.err # NoErr

RECURSIVE SumOfAmounts(_, _)
\* the sum of the amounts of the billings of the table with an id in S
SumOfAmounts(table, S) ==
    IF S = {} THEN 0
    ELSE LET id == CHOOSE x \in S : TRUE
         IN  table[id].nominal.v + SumOfAmounts(table, S \ {id})

EncodedIDs(text) ==
    LET toks == Split(Split(text, " ")[1], ",")
    IN  { Atoi(toks[i]) : i \in 1..Len(toks) }

Billed(u, per) ==
    \E i \in 1..Len(billings) :
        /\ billings[i].bulan = per.bulan
        /\ billings[i].tahun = per.tahun
        /\ \E a \in RowsOf(profileLinks, i) : profileLinks[a].user = u

UsersOf(g) == { g.links[i].user : i \in 1..Len(g.links) }

\* C24: in every state of the tables, a generation for the derived cohort
\* prepares billings only for residents of the qualifying role (resident 2) that
\* have no billing of the period, and returns an empty result once they all have
\* one; a generation for the explicit id 1 prepares its billings again whether or
\* not resident 1 has billings of the period.
C24_DerivedCohortSkipsBilled ==
    \A per \in Periods :
        LET d  == PrepareMonthly(<<>>, per, FALSE, statuses, settings, billings,
                                 profileLinks)
            e  == PrepareMonthly(<<1>>, per, FALSE, statuses, settings, billings,
                                 profileLinks)
            ok == /\ DefaultStatus(statuses).err = NoErr
                  /\ GetActiveMonthlySettingBillings(settings) # <<>>
        IN  ok => /\ Billed(2, per) => d = Returned(Resp(0, 0, 0, 0, <<>>), NoErr)
                  /\ ~Billed(2, per) => (d.pc = "tx" /\ UsersOf(d) = {2})
                  /\ e.pc = "tx"
                  /\ UsersOf(e) = {1}
                  /\ Len(e.billings) = Len(e.links)

\* the second of two all-residents runs, one after the other, returned an empty
\* result: the table holds the two billings of the first run
C24_Witness ==
    /\ \A p \in Runs : gen[p].pc = "idle"
    /\ ret.caller # "none"
    /\ ret.err = NoErr
    /\ ~ret.resp.isNil
    /\ ret.resp.TotalUsers = 0
    /\ ret.committed = 0
    /\ Len(billings) = 2
    /\ \A per \in Periods : Billed(2, per)

\* C25: a confirmation request creates and deletes no row of the four tables,
\* changes no billing, and changes the status link of no billing outside the
\* confirmed id list.
C25_ConfirmFrame ==
    [][ wh'.handler # "none"
        => /\ UNCHANGED <<billings, profileLinks, kategoriLinks>>
           /\ Len(statusLinks') = Len(statusLinks)
           /\ \A i \in 1..Len(statusLinks) :
                 /\ statusLinks'[i].billing = statusLinks[i].billing
                 /\ (~conf'.called \/ statusLinks[i].billing \notin Range(conf'.ids))
                       => statusLinks'[i] = statusLinks[i]
      ]_vars

\* a confirmation of some billings was committed; the billings outside its id
\* list still have the status they were created with
C25_Witness ==
    /\ conf.called
    /\ conf.err = NoErr
    /\ wh.outcome = "200"
    /\ \E i \in 1..Len(statusLinks) :
          statusLinks[i].billing \in Range(conf.ids) /\ statusLinks[i].status = PaidStatusID
    /\ \E i \in 1..Len(statusLinks) :
          statusLinks[i].billing \notin Range(conf.ids) /\ statusLinks[i].status # PaidStatusID

\* the positions of the published statuses, and of those named "Belum Dibayar"
PublishedAt == { i \in 1..Len(statuses) : statuses[i].published }

NamedAt == { i \in PublishedAt : statuses[i].name = Unpaid }

Least(S) == CHOOSE i \in S : \A j \in S : i <= j

\* the status the claim gives to new billings
ExpectedStatus ==
    IF NamedAt # {} THEN statuses[Least(NamedAt)].id ELSE statuses[Least(PublishedAt)].id

\* C26: the billings a batch commits all get one status link with the first
\* published status named "Belum Dibayar", or with the first published status
\* when there is none of that name, and one category link with category 1; a
\* generation returns the default-status error exactly when no status is
\* published, and then nothing is written.
C26_DefaultStatusAndCategory ==
    [][ /\ \A i \in (Len(statusLinks) + 1)..Len(statusLinks') :
              /\ PublishedAt # {}
              /\ statusLinks'[i].status = ExpectedStatus
              /\ statusLinks'[i].billing \in (Len(billings) + 1)..Len(billings')
        /\ \A i \in (Len(kategoriLinks) + 1)..Len(kategoriLinks') :
              kategoriLinks'[i].kategori = 1
        /\ \A b \in (Len(billings) + 1)..Len(billings') :
              /\ Cardinality(RowsOf(statusLinks', b)) = 1
              /\ Cardinality(RowsOf(kategoriLinks', b)) = 1
        /\ ret'.caller # "none"
              => (ret'.err = "failed to get default status" <=> PublishedAt = {})
        /\ PublishedAt = {} => billings' = <<>>
      ]_vars

\* a batch was committed where no published status is named "Belum Dibayar": its
\* billings have the first published status
C26_Witness ==
    /\ ret.caller # "none"
    /\ ret.err = NoErr
    /\ ret.committed > 0
    /\ NamedAt = {}
    /\ \A i \in 1..Len(statusLinks) : statusLinks[i].status = statuses[Least(PublishedAt)].id
    /\ \A i \in 1..Len(kategoriLinks) : kategoriLinks[i].kategori = 1

\* the status of the last audit write run f attempted
FinalEntry(f) == sched.runs[f].trace[Len(sched.runs[f].trace)].ev

\* C28: a run of the job ends with SUCCESS only if the generation committed all
\* of its billings; a run whose transaction aborted (FailedCount > 0) ends with
\* FAILED.
C28_SuccessOnlyIfCommitted ==
    \A f \in FireIDs :
        sched.runs[f].pc = "done"
        => /\ FinalEntry(f) = "SUCCESS" => sched.runs[f].FailedCount = 0
           /\ sched.runs[f].FailedCount > 0 => FinalEntry(f) = "FAILED"

UnknownIDs == { id \in Range(conf.ids) : RowsOf(statusLinks, id) = {} }

\* C30: a confirmation in which no update and no commit fails succeeds whether
\* or not its ids have a status link: the links of its ids become Paid, the
\* others stay as they are, and no row is added.
C30_UnknownIdsIgnored ==
    [][ (wh'.handler # "none" /\ conf'.called /\ conf'.failAt = 0)
        => /\ conf'.err = NoErr
           /\ wh'.outcome = "200"
           /\ UNCHANGED <<billings, profileLinks, kategoriLinks>>
           /\ Len(statusLinks') = Len(statusLinks)
           /\ \A i \in 1..Len(statusLinks) :
                 /\ statusLinks'[i].billing = statusLinks[i].billing
                 /\ statusLinks'[i].status =
                       IF statusLinks[i].billing \in Range(conf'.ids)
                       THEN PaidStatusID ELSE statusLinks[i].status
      ]_vars

\* a webhook for billings 1 and 2 was confirmed with success against tables
\* that hold billing 1 only: billing 1 is Paid and nothing refers to billing 2
C30_Witness ==
    /\ conf.called
    /\ conf.err = NoErr
    /\ wh.outcome = "200"
    /\ conf.ids = <<1, 2>>
    /\ UnknownIDs = {2}
    /\ Len(billings) = 1
    /\ \E i \in RowsOf(statusLinks, 1) : statusLinks[i].status = PaidStatusID

====
